---- MODULE Spec2Model ----
(***************************************************************************)
(* Model of homeassistant/components/imap_email_content/sensor.py:         *)
(* EmailReader (connect, _fetch_message, read_next) and the part of        *)
(* setup_platform / EmailContentSensor that drives it.                     *)
(*                                                                         *)
(* read_next is modelled statement by statement; the position inside it is *)
(* pc.  The IMAP server and the network are the environment: every call on *)
(* the imaplib session draws its outcome with \E from the outcomes the     *)
(* library can produce (a normal return, an imaplib.IMAP4.error, or an     *)
(* exception of another class such as OSError).                            *)
(***************************************************************************)
EXTENDS Integers, Sequences, FiniteSets, TLC

\* ---------------------------------------------------------------- bounds
MaxUid == 3        \* UIDs the server hands out are 1..MaxUid
MaxLen == 3        \* longest search result
MaxAddrLen == 2    \* longest sender address (characters)
MaxAllow == 2      \* most entries of the allow list
MaxParts == 3      \* most MIME parts of a message
MaxLayers == 2     \* most base64 encodings applied on top of a text
MaxDev == 2        \* devices of the device registry

\* ------------------------------------------------------------ vocabulary
None == 0                          \* Python None for _last_id (UIDs are >= 1)
UIDs == 1..MaxUid

NoResult == <<"running", 0>>           \* read_next has not finished
Raised   == <<"raised", 0>>             \* an exception left read_next
NoneMsg  == <<"none", 0>>               \* read_next returned None
Msg(u)   == <<"msg", u>>           \* the parsed message of UID u
AttrsNone  == -1                   \* _state_attributes is None
AttrsEmpty == 0                    \* _state_attributes is {}
NoValue == "unused"                \* fn_in / fn_out outside the function checks

\* search results: sequences of distinct UIDs
SearchResults ==
    { s \in UNION { [1..n -> UIDs] : n \in 0..MaxLen } :
        \A i, j \in DOMAIN s : i # j => s[i] # s[j] }

IsAscending(q) == \A i, j \in DOMAIN q : i < j => q[i] < q[j]

\* the search results of a server that lists UIDs in ascending order
AscendingResults == { s \in SearchResults : IsAscending(s) }

VARIABLES
    last_id,       \* EmailReader._last_id        (None or a UID)
    unread_ids,    \* EmailReader._unread_ids     (deque, front = index 1)
    connection,    \* state of EmailReader.connection: "NoConn" (None),
                   \*   "NONAUTH", "AUTH", "SELECTED" (imaplib session state)
    connected,     \* EmailContentSensor.connected ("unset" before __init__)
    added,         \* add_entities was called with the sensor
    setup_connect, \* outcome of the connect() made by the sensor's __init__
    value_template,\* configuration: TRUE when a value template is set
    message,       \* EmailContentSensor._message: None or the UID published
    state_attributes, \* _state_attributes: AttrsNone, AttrsEmpty or a UID
    update_out,    \* how the last update() ended: "none", "ok", "raised"
    prev_message,  \* _message when the last update() was entered
    prev_attributes, \* _state_attributes when the last update() was entered
    seen_allowed,  \* sender_allowed() of the message of the last update()
    seen_plain,    \* that message had a text/plain part
    fn_in,         \* argument of the extraction function under check
    fn_out,        \* what that function produced
    pc,            \* position of the control flow
    message_uid,   \* argument of the pending _fetch_message call
    result,        \* what the running / last read_next produced
    \* --- history of the running / last read_next call
    startLast,     \* _last_id at entry
    startQueue,    \* _unread_ids at entry
    selectOut,     \* outcome of the select call
    searchLog,     \* searches issued: <<[crit, res, out]>>
    fetchLog,      \* fetches issued:  <<[uid, out, retry]>>
    connects,      \* outcomes of the connect() calls made by read_next
    errAt,         \* statement whose imaplib.IMAP4.error entered the handler
    owed           \* UIDs a search listed as new, not yet answered (below)

vars == << last_id, unread_ids, connection, connected, added, setup_connect,
           value_template, message, state_attributes, update_out,
           prev_message, prev_attributes, seen_allowed, seen_plain,
           fn_in, fn_out, pc,
           message_uid, result, startLast, startQueue, selectOut, searchLog,
           fetchLog, connects, errAt, owed >>

reader  == << last_id, unread_ids, connection >>
tick    == << prev_message, prev_attributes, seen_allowed, seen_plain >>
sensor  == << connected, added, setup_connect, value_template, message,
              state_attributes, update_out, tick >>
extract == << fn_in, fn_out >>
history == << startLast, startQueue, selectOut, searchLog, fetchLog,
             connects, errAt >>

\* ------------------------------------------------------- EmailReader.connect
\* "ok": IMAP4_SSL() and login() return.  "login_failed": login() raises
\* IMAP4.error after the new session was stored.  "open_imap_error": the
\* IMAP4_SSL constructor raises IMAP4.error (bad greeting), so the old session
\* stays.  "open_other_error": the constructor raises an exception that is not
\* an IMAP4.error (socket / TLS failure), which the except clause does not
\* catch.
ConnectOutcomes == {"ok", "login_failed", "open_imap_error", "open_other_error"}

ConnectSession(conn, out) ==
    CASE out = "ok"           -> "AUTH"
      [] out = "login_failed" -> "NONAUTH"
      [] OTHER                -> conn

ConnectReturn(out) ==
    CASE out = "ok"                                  -> "True"
      [] out \in {"login_failed", "open_imap_error"} -> "False"
      [] OTHER                                       -> "Raise"

\* ------------------------------------------ EmailReader._fetch_message
\* Outcomes of connection.uid("fetch", uid, "(RFC822)") as _fetch_message
\* sees them.  imaplib refuses a UID command on a session that is not in
\* state SELECTED by raising IMAP4.error; the text "None" is no UID set, the
\* command is rejected.  Otherwise the server answers with the message
\* ("data"), with nothing for that UID ("nodata": message_data[0] is None),
\* or the call raises.
FetchOutcomes(conn, uid) ==
    IF conn # "SELECTED" THEN {"imap_error"}
    ELSE IF uid = None THEN {"imap_error", "other_error"}
    ELSE {"data", "nodata", "imap_error", "other_error"}

\* lines 111-117: None when there is no message data, else the parsed message
FetchReturn(uid, out) == IF out = "data" THEN Msg(uid) ELSE NoneMsg

\* --------------------------------------------- EmailReader.read_next
\* line 124: a search is issued only when the queue is empty
NeedsSearch(q) == q = << >>

\* variant: the received-today search whatever the last id
SearchCriterionSince(last) == [kind |-> "SINCE", from |-> last]

\* lines 125-127: the search criterion: "SINCE <today>" without a last id,
\* else "UID <last id>:*" (from is the lower end of the range)
SearchCriterion(last) ==
    [kind |-> IF last = None THEN "SINCE" ELSE "UID", from |-> last]

\* variant: the front UID is read and left in the deque
PopLeftPeek(q) == [uid |-> Head(q), rest |-> q]

\* variant: pop() takes from the back of the deque
PopRight(q) == [uid |-> q[Len(q)], rest |-> SubSeq(q, 1, Len(q) - 1)]

\* line 133: popleft()
PopLeft(q) == [uid |-> Head(q), rest |-> Tail(q)]

\* variant: any UID other than the last one counts as new
IsNewerNotEqual(uid, last) == last = None \/ uid # last

\* variant: the test without the "is None" alternative
IsNewerNoNone(uid, last) == last # None /\ uid > last

\* line 134: the test that makes a queued UID the next message
IsNewer(uid, last) == last = None \/ uid > last

\* variant: the fall-back fetch loses the last id
FallbackUidNone(last) == None

\* line 138: the argument of the fall-back fetch, str(self._last_id)
FallbackUid(last) == last

\* lines 147-148, 152: after connect() returned, retry only with a last id
AfterConnect(last) == IF last # None THEN "retry" ELSE "return"

\* variant: a failed retry starts another reconnect
AfterRetryErrorAgain == "reconnect"

\* lines 149-152: an IMAP4.error in the handler ends the call with None
AfterRetryError == "return"

SelectOutcomes(conn) ==
    IF conn \in {"NoConn", "NONAUTH"} THEN {"imap_error"}
    ELSE {"ok", "no", "imap_error", "other_error"}

SearchOutcomes(conn) ==
    IF conn # "SELECTED" THEN {"imap_error"}
    ELSE {"ok", "imap_error", "other_error"}

\* an exception that is not an IMAP4.error leaves read_next
Propagate ==
    /\ pc' = "return"
    /\ result' = Raised

\* line 122 (and entry of read_next, called from update line 275)
Select ==
    /\ pc = "idle"
    /\ UNCHANGED extract
    /\ UNCHANGED owed
    /\ startLast' = last_id
    /\ startQueue' = unread_ids
    /\ searchLog' = << >>
    /\ fetchLog' = << >>
    /\ connects' = << >>
    /\ \E out \in SelectOutcomes(connection) :
      /\ selectOut' = out
      /\ CASE out = "ok" ->
                /\ connection' = "SELECTED"
                /\ pc' = IF NeedsSearch(unread_ids) THEN "search" ELSE "loop"
                /\ result' = NoResult
                /\ errAt' = "none"
           [] out = "no" ->
                /\ connection' = "AUTH"
                /\ pc' = IF NeedsSearch(unread_ids) THEN "search" ELSE "loop"
                /\ result' = NoResult
                /\ errAt' = "none"
           [] out = "imap_error" ->
                /\ pc' = "reconnect"
                /\ result' = NoResult
                /\ errAt' = "select"
                /\ UNCHANGED connection
           [] OTHER ->
                /\ Propagate
                /\ errAt' = "none"
                /\ UNCHANGED connection
    /\ UNCHANGED << last_id, unread_ids, sensor, message_uid >>

\* lines 129-134: the UIDs of a search result that the loop takes for new
Discovered(res, last) ==
    { res[i] : i \in { j \in DOMAIN res : IsNewer(res[j], last) } }

\* lines 107-117: a fetch that returns answers for its UID: the message, or
\* none when the server holds no data for it.  A fetch that raised
\* imaplib.IMAP4.error left the UID unanswered; one that raised anything else
\* is not followed further.
Answered(pending, uid, out) ==
    IF out = "imap_error" THEN pending ELSE pending \ {uid}

\* lines 125-130
SearchWith(results) ==
    /\ pc = "search"
    /\ UNCHANGED extract
    /\ \E out \in SearchOutcomes(connection) :
         CASE out = "ok" ->
                \E res \in results :
                    /\ unread_ids' = res
                    /\ owed' = owed \cup Discovered(res, last_id)
                    /\ searchLog' = Append(searchLog,
                          [crit |-> SearchCriterion(last_id), res |-> res,
                           out |-> out])
                    /\ pc' = "loop"
                    /\ UNCHANGED << result, errAt >>
           [] out = "imap_error" ->
                /\ searchLog' = Append(searchLog,
                      [crit |-> SearchCriterion(last_id), res |-> << >>,
                       out |-> out])
                /\ pc' = "reconnect"
                /\ errAt' = "search"
                /\ UNCHANGED << unread_ids, result, owed >>
           [] OTHER ->
                /\ searchLog' = Append(searchLog,
                      [crit |-> SearchCriterion(last_id), res |-> << >>,
                       out |-> out])
                /\ Propagate
                /\ UNCHANGED << unread_ids, errAt, owed >>
    /\ UNCHANGED << last_id, connection, sensor, message_uid,
                    startLast, startQueue, selectOut, fetchLog, connects >>

\* lines 124-130 with a server that may list the UIDs in any order
Search == SearchWith(SearchResults)

\* lines 124-130 with a server that lists the UIDs in ascending order
SearchAsc == SearchWith(AscendingResults)

\* lines 132-138: one iteration of the while loop, or the fall-through
Loop ==
    /\ pc = "loop"
    /\ UNCHANGED extract
    /\ UNCHANGED owed
    /\ IF unread_ids # << >>
       THEN LET p == PopLeft(unread_ids) IN
            /\ unread_ids' = p.rest
            /\ IF IsNewer(p.uid, last_id)
               THEN /\ last_id' = p.uid
                    /\ message_uid' = p.uid
                    /\ pc' = "fetch"
               ELSE /\ pc' = "loop"
                    /\ UNCHANGED << last_id, message_uid >>
       ELSE /\ message_uid' = FallbackUid(last_id)
            /\ pc' = "fetch"
            /\ UNCHANGED << last_id, unread_ids >>
    /\ UNCHANGED << connection, sensor, result, history >>

\* lines 136 / 138 with _fetch_message, lines 107-117
Fetch ==
    /\ pc = "fetch"
    /\ UNCHANGED extract
    /\ \E out \in FetchOutcomes(connection, message_uid) :
         /\ fetchLog' = Append(fetchLog,
               [uid |-> message_uid, out |-> out, retry |-> FALSE])
         /\ owed' = Answered(owed, message_uid, out)
         /\ CASE out \in {"data", "nodata"} ->
                   /\ result' = FetchReturn(message_uid, out)
                   /\ pc' = "return"
                   /\ UNCHANGED errAt
              [] out = "imap_error" ->
                   /\ pc' = "reconnect"
                   /\ errAt' = "fetch"
                   /\ UNCHANGED result
              [] OTHER ->
                   /\ Propagate
                   /\ UNCHANGED errAt
    /\ UNCHANGED << reader, sensor, message_uid,
                    startLast, startQueue, selectOut, searchLog, connects >>

\* lines 140-148: the handler calls connect() and ignores what it returns
Reconnect ==
    /\ pc = "reconnect"
    /\ UNCHANGED extract
    /\ UNCHANGED owed
    /\ \E out \in ConnectOutcomes :
         /\ connection' = ConnectSession(connection, out)
         /\ connects' = Append(connects, out)
         /\ IF ConnectReturn(out) = "Raise"
            THEN /\ Propagate
                 /\ UNCHANGED message_uid
            ELSE /\ pc' = AfterConnect(last_id)
                 /\ message_uid' = IF last_id # None THEN last_id
                                   ELSE message_uid
                 /\ result' = IF AfterConnect(last_id) = "return"
                              THEN NoneMsg ELSE result
    /\ UNCHANGED << last_id, unread_ids, sensor,
                    startLast, startQueue, selectOut, searchLog, fetchLog,
                    errAt >>

\* line 148 with _fetch_message, and lines 149-152
RetryFetch ==
    /\ pc = "retry"
    /\ UNCHANGED extract
    /\ \E out \in FetchOutcomes(connection, message_uid) :
         /\ fetchLog' = Append(fetchLog,
               [uid |-> message_uid, out |-> out, retry |-> TRUE])
         /\ owed' = Answered(owed, message_uid, out)
         /\ CASE out \in {"data", "nodata"} ->
                   /\ result' = FetchReturn(message_uid, out)
                   /\ pc' = "return"
              [] out = "imap_error" ->
                   /\ pc' = AfterRetryError
                   /\ result' = IF AfterRetryError = "return"
                                THEN NoneMsg ELSE result
              [] OTHER ->
                   Propagate
    /\ UNCHANGED << reader, sensor, message_uid,
                    startLast, startQueue, selectOut, searchLog, connects,
                    errAt >>

\* ---------------------------------------------------------------- sensor
\* EmailReader.__init__ (lines 86-95) and EmailContentSensor.__init__
\* (lines 158-167), before connect() is called
Constructed ==
    /\ last_id = None
    /\ unread_ids = << >>
    /\ connection = "NoConn"
    /\ connected = "unset"
    /\ added = FALSE
    /\ setup_connect = "none"
    /\ value_template \in BOOLEAN
    /\ message = None
    /\ state_attributes = AttrsNone
    /\ update_out = "none"
    /\ prev_message = None
    /\ prev_attributes = AttrsNone
    /\ seen_allowed = FALSE
    /\ seen_plain = FALSE
    /\ message_uid = None
    /\ result = NoResult
    /\ startLast = None
    /\ startQueue = << >>
    /\ selectOut = "none"
    /\ searchLog = << >>
    /\ fetchLog = << >>
    /\ connects = << >>
    /\ errAt = "none"
    /\ owed = {}

Init ==
    /\ Constructed
    /\ pc = "setup"
    /\ fn_in = NoValue
    /\ fn_out = NoValue

\* line 79: the entity is handed to the host only when connected
ShouldAdd(conn_ret) == conn_ret = "True"

\* setup_platform, lines 61-80, with line 168 (self.connected = connect())
Setup ==
    /\ pc = "setup"
    /\ UNCHANGED extract
    /\ UNCHANGED owed
    /\ \E out \in ConnectOutcomes :
         /\ setup_connect' = out
         /\ connection' = ConnectSession(connection, out)
         /\ IF ConnectReturn(out) = "Raise"
            THEN /\ pc' = "setup_raised"
                 /\ UNCHANGED << connected, added >>
            ELSE /\ connected' = ConnectReturn(out)
                 /\ added' = ShouldAdd(ConnectReturn(out))
                 /\ pc' = IF ShouldAdd(ConnectReturn(out)) THEN "idle"
                          ELSE "not_added"
    /\ UNCHANGED << last_id, unread_ids, value_template, message,
                    state_attributes, update_out, tick, message_uid, result,
                    history >>

\* variant: the value is cleared, the attributes are left as they were
ClearedKeepAttributes == [message |-> None, attributes |-> state_attributes]

\* lines 278-279: what update() publishes when read_next returned None
Cleared == [message |-> None, attributes |-> AttrsEmpty]

\* line 282: only a message whose sender is allowed is published
MayPublish(allowed) == allowed

\* EmailContentSensor.update after read_next returned, lines 277-294.
\* allowed: sender_allowed(email_message); plain: the message has a
\* text/plain part, for which get_msg_text evaluates the name is_base64,
\* which is not defined at module level (lines 228, 250), and raises.
Update ==
    /\ pc = "return"
    /\ UNCHANGED extract
    /\ UNCHANGED owed
    /\ pc' = "idle"
    /\ prev_message' = message
    /\ prev_attributes' = state_attributes
    /\ CASE result = Raised ->
              /\ update_out' = "raised"
              /\ seen_allowed' = FALSE
              /\ seen_plain' = FALSE
              /\ UNCHANGED << message, state_attributes >>
         [] result = NoneMsg ->
              /\ message' = Cleared.message
              /\ state_attributes' = Cleared.attributes
              /\ update_out' = "ok"
              /\ seen_allowed' = FALSE
              /\ seen_plain' = FALSE
         [] OTHER ->
              \E allowed \in BOOLEAN, plain \in BOOLEAN :
                 /\ seen_allowed' = allowed
                 /\ seen_plain' = plain
                 /\ IF ~MayPublish(allowed)
                    THEN /\ update_out' = "ok"
                         /\ UNCHANGED << message, state_attributes >>
                    ELSE IF plain /\ value_template
                    THEN /\ update_out' = "raised"
                         /\ UNCHANGED << message, state_attributes >>
                    ELSE /\ message' = result[2]
                         /\ IF plain
                            THEN /\ update_out' = "raised"
                                 /\ UNCHANGED state_attributes
                            ELSE /\ update_out' = "ok"
                                 /\ state_attributes' = result[2]
    /\ UNCHANGED << reader, connected, added, setup_connect, value_template,
                    message_uid, result, history >>

Next ==
    \/ Setup
    \/ Select
    \/ Search
    \/ Loop
    \/ Fetch
    \/ Reconnect
    \/ RetryFetch
    \/ Update

Spec == Init /\ [][Next]_vars

NextAsc ==
    \/ Setup
    \/ Select
    \/ SearchAsc
    \/ Loop
    \/ Fetch
    \/ Reconnect
    \/ RetryFetch
    \/ Update

\* the program against a server whose search results are ascending
SpecAsc == Init /\ [][NextAsc]_vars

\* ------------------------------------------- polling a fixed folder
\* The folder of a run: the UIDs it holds and those of them that were
\* received today.  No message arrives or leaves.
Folders ==
    { f \in [uids : SUBSET UIDs, today : SUBSET UIDs] : f.today \subseteq f.uids }

RECURSIVE Ascending(_)
\* the UIDs of a set as the server lists them, lowest first
Ascending(S) ==
    IF S = {} THEN << >>
    ELSE LET m == CHOOSE x \in S : \A y \in S : x <= y
         IN << m >> \o Ascending(S \ {m})

\* lines 125-130: what the folder answers to the search criterion: the
\* messages received today, or the UIDs from the given one upwards
FolderSearch(folder, crit) ==
    IF crit.kind = "SINCE" THEN Ascending(folder.today)
    ELSE Ascending({ u \in folder.uids : u >= crit.from })

InitLive ==
    /\ Constructed
    /\ pc = "setup"
    /\ fn_out = NoValue
    /\ fn_in \in Folders

\* line 122 answered with OK
SelectLive == Select /\ selectOut' = "ok"

\* lines 125-130 answered with the matching UIDs of the folder
SearchLive ==
    /\ SearchWith({ FolderSearch(fn_in, SearchCriterion(last_id)) })
    /\ pc' = "loop"

\* lines 107-117 answered with the message of a UID the folder holds
FetchLive ==
    /\ message_uid \in fn_in.uids
    /\ Fetch
    /\ result' = Msg(message_uid)

NextLive ==
    \/ Setup
    \/ SelectLive
    \/ SearchLive
    \/ Loop
    \/ FetchLive
    \/ Update

\* The host calls update() again and again and every call of the library
\* returns: a step that can be taken is taken.
SpecLive == InitLive /\ [][NextLive]_vars /\ WF_vars(NextLive)

\* ------------------------------------------------ sender_allowed
\* Strings are sequences of characters.  Letters are the characters an
\* address is made of here: a letter in both cases and one more letter.
Letters == {"a", "A", "b"}

Strings(n) == UNION { [1..k -> Letters] : k \in 1..n }

Addresses == Strings(MaxAddrLen)

DisplayNames == { <<"A">>, <<"b", " ", "a">> }

\* a From header: the bare address, or [display name] <address>
FromHeader(form, display, addr) ==
    CASE form = "bare"  -> addr
      [] form = "angle" -> << "<" >> \o addr \o << ">" >>
      [] OTHER          -> display \o << " ", "<" >> \o addr \o << ">" >>

FirstIndex(h, c) ==
    CHOOSE i \in DOMAIN h : h[i] = c /\ \A j \in 1..(i-1) : h[j] # c

\* email.utils.parseaddr(...)[1] on such a header: what stands between
\* "<" and ">", or the whole header when there are no angle brackets
ParseAddr(h) ==
    IF \E i \in DOMAIN h : h[i] = "<"
    THEN LET lo == FirstIndex(h, "<")
             hi == CHOOSE i \in (lo+1)..Len(h) :
                      h[i] = ">" /\ \A j \in (lo+1)..(i-1) : h[j] # ">"
         IN SubSeq(h, lo + 1, hi - 1)
    ELSE h

\* str.upper()
UpperChar(c) == CASE c = "a" -> "A" [] c = "b" -> "B" [] OTHER -> c

Upper(str) == [i \in DOMAIN str |-> UpperChar(str[i])]

\* line 163: the allow list is upper-cased once, in __init__
AllowedSenders(configured) == [i \in DOMAIN configured |-> Upper(configured[i])]

\* lines 202-204: get_msg_sender
GetMsgSender(hdr) == ParseAddr(hdr)

IsInfix(x, y) ==
    \E k \in 0..(Len(y) - Len(x)) : SubSeq(y, k + 1, k + Len(x)) = x

\* variant: the sender is looked up inside each entry (substring test)
SenderAllowedContains(hdr, allowed_senders) ==
    \E i \in DOMAIN allowed_senders :
        IsInfix(Upper(GetMsgSender(hdr)), allowed_senders[i])

\* lines 195-199: sender_allowed
SenderAllowed(hdr, allowed_senders) ==
    \E i \in DOMAIN allowed_senders :
        allowed_senders[i] = Upper(GetMsgSender(hdr))

program == << reader, sensor, message_uid, result, history, owed >>

InitSender ==
    /\ Constructed
    /\ pc = "sender"
    /\ fn_out = NoValue
    /\ \E form \in {"bare", "angle", "named"}, display \in DisplayNames,
          addr \in Addresses,
          senders \in UNION { [1..n -> Addresses] : n \in 0..MaxAllow } :
          fn_in = [addr |-> addr, hdr |-> FromHeader(form, display, addr),
                   senders |-> senders]

\* sender_allowed applied to a message with that From header by a sensor
\* configured with that allow list
ApplySenderAllowed ==
    /\ pc = "sender"
    /\ pc' = "sender_done"
    /\ fn_out' = SenderAllowed(fn_in.hdr, AllowedSenders(fn_in.senders))
    /\ UNCHANGED << fn_in, program >>

NextSender == ApplySenderAllowed

SpecSender == InitSender /\ [][NextSender]_vars

\* --------------------------------------------------- get_msg_text
\* A payload is a text with a number of base64 encodings applied to it:
\* layers = 0 is a text that does not survive b64decode / b64encode
\* unchanged, layers = n + 1 is the base64 encoding of the payload with n
\* layers.  "bin" stands for bytes that are not ASCII; they occur encoded.
Text(t) == [layers |-> 0, base |-> t]

B64Encode(pl) == [layers |-> pl.layers + 1, base |-> pl.base]

B64Decode(pl) == [layers |-> pl.layers - 1, base |-> pl.base]

IsAscii(pl) == ~(pl.layers = 0 /\ pl.base = "bin")

PlaceholderText == Text("Could Not Convert From Base64")

NoPayload == Text("None")              \* Python None
PartList == Text("list of parts")       \* get_payload() of a multipart
NameError == Text("NameError raised")   \* the call ended in a NameError

Payloads ==
    { Text("Hi"), Text("<p>Hi</p>") }
    \cup { [layers |-> n, base |-> b] :
             n \in 1..MaxLayers, b \in {"Hello", "bin"} }

ContentTypes == {"text/plain", "text/html", "text/calendar", "image/png"}

Parts == [ctype : ContentTypes, payload : Payloads]

\* the parts of a message in the order walk() yields them (the multipart
\* containers, which match no branch of get_msg_text, left out)
Messages == UNION { [1..n -> Parts] : n \in 1..MaxParts }

\* email_message.get_payload(): the payload of a message that is its only
\* part, the list of parts of a multipart message
TopPayload(parts) == IF Len(parts) = 1 THEN parts[1].payload ELSE PartList

\* lines 250-261: is_base64, a method of EmailContentSensor
IsBase64(pl) == pl.layers > 0

\* lines 263-271: get_plain_text, a method of EmailContentSensor
GetPlainText(pl) ==
    IF pl.layers > 0
    THEN IF IsAscii(B64Decode(pl)) THEN B64Decode(pl) ELSE PlaceholderText
    ELSE PlaceholderText

\* The names get_msg_text can call as plain functions.  is_base64 and
\* get_plain_text are defined inside the class body with a self parameter
\* (lines 250, 263); get_msg_text is a staticmethod and uses the bare names
\* (lines 228-229), which Python looks up in the module: they are not there.
ModuleLevelNames == {"EmailReader", "EmailContentSensor", "setup_platform"}

StartsWithText(ctype) == ctype \in {"text/plain", "text/html", "text/calendar"}

\* lines 225-237: the body of the for loop, for one part
WalkStep(acc, part) ==
    IF acc.raised THEN acc
    ELSE IF part.ctype = "text/plain"
    THEN LET text == IF acc.text = NoPayload THEN part.payload ELSE acc.text
         IN IF "is_base64" \notin ModuleLevelNames
            THEN [acc EXCEPT !.text = text, !.raised = TRUE]
            ELSE IF IsBase64(text)
            THEN [acc EXCEPT !.text = GetPlainText(text)]
            ELSE [acc EXCEPT !.text = text]
    ELSE IF part.ctype = "text/html"
    THEN IF acc.html = NoPayload THEN [acc EXCEPT !.html = part.payload]
         ELSE acc
    ELSE IF StartsWithText(part.ctype) /\ acc.untyped = NoPayload
    THEN [acc EXCEPT !.untyped = part.payload]
    ELSE acc

RECURSIVE Walk(_, _)
\* lines 220-237: the three variables after the loop over walk()
Walk(acc, parts) ==
    IF parts = << >> THEN acc
    ELSE Walk(WalkStep(acc, Head(parts)), Tail(parts))

\* lines 213-248: get_msg_text
GetMsgText(parts) ==
    LET acc == Walk([text |-> NoPayload, html |-> NoPayload,
                     untyped |-> NoPayload, raised |-> FALSE], parts)
    IN IF acc.raised THEN NameError
       ELSE IF acc.text # NoPayload THEN acc.text
       ELSE IF acc.html # NoPayload THEN acc.html
       ELSE IF acc.untyped # NoPayload THEN acc.untyped
       ELSE TopPayload(parts)

InitBody ==
    /\ Constructed
    /\ pc = "body"
    /\ fn_out = NoValue
    /\ fn_in \in Messages

\* get_msg_text applied to that message
ApplyGetMsgText ==
    /\ pc = "body"
    /\ pc' = "body_done"
    /\ fn_out' = GetMsgText(fn_in)
    /\ UNCHANGED << fn_in, program >>

NextBody == ApplyGetMsgText

SpecBody == InitBody /\ [][NextBody]_vars

\* ------------------------------------------- switch_as_x: fan.py
\* The entity registry maps a switch entity id to its entry; an entry has a
\* registry id and a device id (None when the switch belongs to no device).
Switches == {"switch.abc", "switch.test_unique"}

RegistryId(switch) == IF switch = "switch.abc" THEN "id_abc" ELSE "id_unique"

NotRegistered == [registered |-> FALSE, device_id |-> None]

Registered(dev) == [registered |-> TRUE, device_id |-> dev]

Registries ==
    [Switches -> {NotRegistered} \cup { Registered(d) : d \in 0..MaxDev }]

\* config_entry.options[CONF_ENTITY_ID]: an entity id or a registry id
EntityOptions == Switches \cup { RegistryId(sw) : sw \in Switches }

Invalid == "vol.Invalid"

\* er.async_validate_entity_id: an entity id is returned as it is, a registry
\* id is resolved to the entity id of its entry and is invalid without one
AsyncValidateEntityId(registry, option) ==
    IF option \in Switches THEN option
    ELSE LET sw == CHOOSE x \in Switches : RegistryId(x) = option
         IN IF registry[sw].registered THEN sw ELSE Invalid

\* registry.async_get(entity_id): the entry, or None
AsyncGet(registry, entity_id) ==
    IF registry[entity_id].registered THEN registry[entity_id]
    ELSE NotRegistered

WrappedDeviceIdNone(wrapped_switch) == None

\* line 25: device_id = wrapped_switch.device_id if wrapped_switch else None
WrappedDeviceId(wrapped_switch) ==
    IF wrapped_switch.registered THEN wrapped_switch.device_id ELSE None

\* BaseToggleEntity and the entity platform: the entity is registered under
\* the unique id of its config entry, on the device id it was built with
FanSwitch(title, entity_id, unique_id, device_id) ==
    [outcome |-> "added", name |-> title, wraps |-> entity_id,
     unique_id |-> unique_id, device_id |-> device_id]

SetupFailed ==
    [outcome |-> "raised", name |-> "", wraps |-> "", unique_id |-> "",
     device_id |-> None]

\* lines 14-36: async_setup_entry
AsyncSetupEntryResult(registry, option) ==
    LET entity_id == AsyncValidateEntityId(registry, option)
    IN IF entity_id = Invalid THEN SetupFailed
       ELSE FanSwitch("ABC", entity_id, "entry_id",
                      WrappedDeviceId(AsyncGet(registry, entity_id)))

InitFan ==
    /\ Constructed
    /\ pc = "fan"
    /\ fn_out = NoValue
    /\ fn_in \in [registry : Registries, option : EntityOptions]

AsyncSetupEntry ==
    /\ pc = "fan"
    /\ pc' = "fan_done"
    /\ fn_out' = AsyncSetupEntryResult(fn_in.registry, fn_in.option)
    /\ UNCHANGED << fn_in, program >>

NextFan == AsyncSetupEntry

SpecFan == InitFan /\ [][NextFan]_vars

\* ======================================================================
\* Properties
\* ======================================================================
Finished == pc = "return"

\* read_next ran its try block to the end: no exception of any class
NoFailure == errAt = "none" /\ result # Raised

\* the search of this call returned normally
SearchOk == Len(searchLog) = 1 /\ searchLog[1].out = "ok"

\* select and the search (if any) returned, the while loop was entered
LoopRan == selectOut \in {"ok", "no"} /\ (SearchOk \/ searchLog = << >>)

\* the queue the while loop of this call started from
QueueAtLoop == IF SearchOk THEN searchLog[1].res ELSE startQueue

\* C1: _last_id never decreases: once it holds a UID U, no step of any poll,
\* whatever the search results, errors and reconnects, sets it back to None
\* or to a value below U.
C1_LastIdMonotone ==
    [][last_id # None => (last_id' # None /\ last_id' >= last_id)]_vars

\* last id advanced from one UID to a higher one in a poll that also went
\* through the reconnect handler
C1_Witness ==
    /\ Finished
    /\ startLast # None
    /\ last_id > startLast
    /\ Len(connects) = 1

\* C2 (as stated): with last id U and a poll that finds no UID above U and
\* meets no protocol error, the poll returns the message of U, never None.
C2_Original ==
    (/\ Finished
     /\ NoFailure
     /\ startLast # None
     /\ last_id = startLast)
    => result = Msg(startLast)

\* C2 (amended): in such a poll the fall-back fetch is issued for U itself,
\* and the poll returns the message of U exactly when that fetch yields
\* message data; it returns None exactly when the server has no data for U.
C2_Redelivery ==
    /\ (pc = "fetch" /\ startLast # None /\ last_id = startLast)
          => message_uid = startLast
    /\ (/\ Finished
        /\ NoFailure
        /\ startLast # None
        /\ last_id = startLast)
       => /\ Len(fetchLog) = 1
          /\ fetchLog[1].uid = startLast
          /\ fetchLog[1].out \in {"data", "nodata"}
          /\ (fetchLog[1].out = "data" <=> result = Msg(startLast))
          /\ (fetchLog[1].out = "nodata" <=> result = NoneMsg)
          /\ unread_ids = << >>

C2_Witness ==
    /\ Finished
    /\ NoFailure
    /\ startLast # None
    /\ last_id = startLast
    /\ Len(searchLog) = 1
    /\ result = Msg(startLast)

\* C3: after an IMAP4.error in select, search or fetch and a reconnect that
\* succeeded (new session, login accepted), the same poll returns the message
\* of the current last id, fetched on the new session without a new search.
C3_ReconnectReturnsLast ==
    (/\ Finished
     /\ errAt # "none"
     /\ last_id # None
     /\ connects = << "ok" >>)
    => /\ result = Msg(last_id)
       /\ \E i \in DOMAIN fetchLog :
             fetchLog[i].retry /\ fetchLog[i].uid = last_id
       /\ Len(searchLog) <= 1

\* C4: a poll makes at most one connect(): exactly one when an IMAP4.error
\* was raised by select, search or fetch, none otherwise; after it there is
\* no search, no second connect and at most one (retried) fetch.
C4_SingleReconnect ==
    /\ Len(connects) <= 1
    /\ pc \in {"search", "loop", "fetch", "reconnect"} => connects = << >>
    /\ pc = "reconnect" => errAt # "none"
    /\ pc \in {"retry", "return"} => (Len(connects) = 1 <=> errAt # "none")
    /\ Cardinality({i \in DOMAIN fetchLog : fetchLog[i].retry}) <= 1
    /\ pc = "retry" => \A i \in DOMAIN fetchLog : ~fetchLog[i].retry
    /\ \A i \in DOMAIN fetchLog :
          fetchLog[i].retry => (i = Len(fetchLog) /\ Len(connects) = 1)

\* a poll that failed, reconnected and whose retried fetch failed again
C4_Witness ==
    /\ Finished
    /\ errAt = "fetch"
    /\ Len(connects) = 1
    /\ Len(fetchLog) = 2
    /\ fetchLog[2].retry
    /\ fetchLog[2].out = "imap_error"

\* C5: when a protocol error occurred and the reconnect failed (the session
\* could not be opened, or the login was refused), the poll returns None and
\* nothing is raised out of read_next.
C5_FailedReconnectReturnsNone ==
    (/\ Finished
     /\ errAt # "none"
     /\ Len(connects) = 1
     /\ connects[1] # "ok")
    => result = NoneMsg

\* C6: connect() returns False without raising on every failed login and on
\* every failure to open the session, returns True only with a session that
\* is open and logged in, and the entity is added only after True.
C6_ConnectNeverRaises ==
    /\ setup_connect \in {"login_failed", "open_imap_error", "open_other_error"}
          => (connected = "False" /\ pc # "setup_raised")
    /\ connected = "True" => setup_connect = "ok"
    /\ added => connected = "True"

\* C7: with no last id and a non-empty result of the received-today search,
\* the poll sets _last_id to the first UID of the result (the lowest one of
\* an ascending result), fetches that UID and returns its message when the
\* fetch delivers it; the rest of the result stays queued.
C7_FirstPoll ==
    (/\ pc \in {"fetch", "reconnect", "retry", "return"}
     /\ startLast = None
     /\ SearchOk
     /\ searchLog[1].res # << >>)
    => LET res == searchLog[1].res IN
       /\ searchLog[1].crit.kind = "SINCE"
       /\ last_id = res[1]
       /\ IsAscending(res) => \A i \in DOMAIN res : res[1] <= res[i]
       /\ unread_ids = Tail(res)
       /\ pc = "fetch" => message_uid = res[1]
       /\ fetchLog # << >> => fetchLog[1].uid = res[1]
       /\ (Finished /\ fetchLog # << >> /\ fetchLog[1].out = "data")
             => result = Msg(res[1])
       /\ (Finished /\ result \notin {NoneMsg, Raised}) => result = Msg(res[1])

C7_Witness ==
    /\ Finished
    /\ startLast = None
    /\ SearchOk
    /\ Len(searchLog[1].res) = 1
    /\ result = Msg(searchLog[1].res[1])
    /\ last_id = searchLog[1].res[1]

\* C8: a poll issues at most one search, and only when the queue was empty
\* at its start; the search is the SINCE search iff there is no last id, and
\* otherwise the range search "UID <last id>:*" starting at the last id
\* itself; SINCE is never issued once a last id exists.
C8_SearchChoice ==
    /\ Len(searchLog) <= 1
    /\ searchLog # << >> => startQueue = << >>
    /\ \A i \in DOMAIN searchLog :
          /\ searchLog[i].crit.kind \in {"SINCE", "UID"}
          /\ searchLog[i].crit.kind = "SINCE" <=> startLast = None
          /\ searchLog[i].crit.kind = "UID" <=> startLast # None
          /\ searchLog[i].crit.kind = "UID" => searchLog[i].crit.from = startLast
    /\ pc = "search" => (unread_ids = << >> /\ searchLog = << >>)

C8_Witness ==
    /\ Finished
    /\ startLast # None
    /\ SearchOk
    /\ searchLog[1].crit = [kind |-> "UID", from |-> startLast]
    /\ searchLog[1].res # << >>

\* C9: a poll delivers at most one new message: it pops from the front, at
\* the first UID above the last id it sets _last_id to it, fetches it and
\* returns its message (when the fetch delivers it) and stops; the UIDs
\* behind it stay queued in order, and a poll that starts with a non-empty
\* queue consumes from it without a search.
C9_OneNewPerPoll ==
    /\ startQueue # << >> => searchLog = << >>
    /\ (pc \in {"fetch", "reconnect", "retry", "return"} /\ last_id # startLast)
       => LET q == QueueAtLoop IN
          \E k \in DOMAIN q :
             /\ startLast = None \/ q[k] > startLast
             /\ \A j \in 1..(k-1) : startLast # None /\ q[j] <= startLast
             /\ last_id = q[k]
             /\ unread_ids = SubSeq(q, k + 1, Len(q))
             /\ fetchLog # << >> => fetchLog[1].uid = q[k]
             /\ (Finished /\ fetchLog # << >> /\ fetchLog[1].out = "data")
                   => result = Msg(q[k])
    /\ (pc \in {"fetch", "reconnect", "retry", "return"} /\ last_id = startLast
          /\ LoopRan)
       => LET q == QueueAtLoop IN
          /\ unread_ids = << >>
          /\ \A j \in DOMAIN q : startLast # None /\ q[j] <= startLast

\* a poll that started with two queued UIDs, delivered the first without a
\* search and left the second queued
C9_Witness ==
    /\ Finished
    /\ Len(startQueue) = 2
    /\ searchLog = << >>
    /\ last_id = startQueue[1]
    /\ result = Msg(startQueue[1])
    /\ unread_ids = << startQueue[2] >>

\* C10: a poll returns None exactly when the folder could not be accessed,
\* when no message was ever found (no last id), or when the reconnect after
\* a protocol error failed; in every other case it returns a message.
\* Stated for the polls that return and in which the server answered no
\* fetch with "no data for this UID" (that case is the subject of C2).
C10_NoneCases ==
    (/\ Finished
     /\ result # Raised
     /\ \A i \in DOMAIN fetchLog : fetchLog[i].out # "nodata")
    => (result = NoneMsg <=>
           \/ selectOut # "ok"
           \/ last_id = None
           \/ (Len(connects) = 1 /\ connects[1] # "ok"))

\* the last update() tick is over and nothing has started since
Ticked == pc = "idle" /\ update_out # "none"

\* C11: after every update() in which read_next returned None the published
\* state is empty: the value is None and the attributes are {}, whatever was
\* published before.
C11_ClearedOnNone ==
    (Ticked /\ result = NoneMsg)
    => (message = None /\ state_attributes = AttrsEmpty)

\* a tick that cleared a published message
C11_Witness ==
    /\ Ticked
    /\ result = NoneMsg
    /\ prev_message # None
    /\ prev_attributes \in UIDs
    /\ message = None
    /\ state_attributes = AttrsEmpty

\* C12: update() publishes a message only if its sender is allowed: for a
\* sender that is not allowed value and attributes stay as they were; for an
\* allowed sender the value and the attributes are both replaced by those of
\* the returned message; so the published attributes are always unset, empty
\* or those of a message from an allowed sender.
C12_PublishIffAllowed ==
    (Ticked /\ result \notin {NoneMsg, Raised})
    => /\ ~seen_allowed =>
             (message = prev_message /\ state_attributes = prev_attributes)
       /\ seen_allowed =>
             (message = result[2] /\ state_attributes = result[2])

LowerChar(c) == CASE c = "A" -> "a" [] c = "B" -> "b" [] OTHER -> c

SameIgnoringCase(x, y) ==
    /\ Len(x) = Len(y)
    /\ \A i \in DOMAIN x : LowerChar(x[i]) = LowerChar(y[i])

\* C13: sender_allowed is true iff the address part of the From header, the
\* display name and the brackets discarded, equals some entry of the
\* configured allow list when case is ignored; an address that only contains
\* an entry or is contained in one is rejected.
C13_SenderAllowed ==
    pc = "sender_done"
    => (fn_out <=> \E i \in DOMAIN fn_in.senders :
                       SameIgnoringCase(fn_in.senders[i], fn_in.addr))

\* a header with a display name, allowed through an entry in another case
C13_Witness ==
    /\ pc = "sender_done"
    /\ fn_out
    /\ Len(fn_in.hdr) > Len(fn_in.addr) + 2
    /\ \A i \in DOMAIN fn_in.senders : fn_in.senders[i] # fn_in.addr

\* the parts of one content type, in document order
RECURSIVE OfType(_, _)
OfType(parts, ctype) ==
    IF parts = << >> THEN << >>
    ELSE IF Head(parts).ctype = ctype
         THEN << Head(parts) >> \o OfType(Tail(parts), ctype)
         ELSE OfType(Tail(parts), ctype)

\* the text of a text/plain payload: decoded when it is base64
PlainContent(pl) ==
    IF pl.layers = 0 THEN pl
    ELSE IF pl.layers = 1 /\ pl.base = "bin" THEN PlaceholderText
    ELSE [layers |-> pl.layers - 1, base |-> pl.base]

\* the body the precedence rule selects
ExpectedBody(parts) ==
    IF OfType(parts, "text/plain") # << >>
    THEN PlainContent(OfType(parts, "text/plain")[1].payload)
    ELSE IF OfType(parts, "text/html") # << >>
    THEN OfType(parts, "text/html")[1].payload
    ELSE IF OfType(parts, "text/calendar") # << >>
    THEN OfType(parts, "text/calendar")[1].payload
    ELSE TopPayload(parts)

\* C14: body() is the content of the first text/plain part if there is one,
\* else the first text/html part, else the first other text/* part, else the
\* top-level payload, wherever the parts of the other categories stand.
C14_BodyPrecedence ==
    pc = "body_done" => fn_out = ExpectedBody(fn_in)

\* C15: for the selected text/plain part body() is the decoded text when the
\* payload is base64 ("SGVsbG8=" gives "Hello") and the payload itself when
\* it is not ("Hi" stays "Hi").
C15_PlainDecoding ==
    (pc = "body_done" /\ Len(fn_in) = 1 /\ fn_in[1].ctype = "text/plain")
    => /\ fn_in[1].payload = B64Encode(Text("Hello")) => fn_out = Text("Hello")
       /\ fn_in[1].payload.layers = 0 => fn_out = fn_in[1].payload

\* C16: only the first part of a category counts: body() returns a text, and
\* returns the same one when a further part is appended whose category
\* already occurs in the message; the first text/plain part is decoded once.
C16_FirstOfCategory ==
    pc = "body_done"
    => /\ fn_out # NameError
       /\ \A more \in Parts :
             (/\ StartsWithText(more.ctype)
              /\ OfType(fn_in, more.ctype) # << >>)
             => GetMsgText(fn_in \o << more >>) = fn_out
       /\ OfType(fn_in, "text/plain") # << >>
             => fn_out = PlainContent(OfType(fn_in, "text/plain")[1].payload)

\* C17: a decoding failure never leaves body(): for a text/plain payload that
\* is base64 of bytes that are not ASCII body() returns the placeholder text,
\* and body() raises for no message with a text/plain part.
C17_DecodeFailureContained ==
    (pc = "body_done" /\ OfType(fn_in, "text/plain") # << >>)
    => /\ fn_out # NameError
       /\ OfType(fn_in, "text/plain")[1].payload = B64Encode(Text("bin"))
             => fn_out = PlaceholderText

\* the switch the config entry names, by entity id or by registry id
NamedSwitch(option) ==
    IF option \in Switches THEN option
    ELSE CHOOSE sw \in Switches : RegistryId(sw) = option

\* C18: once the fan config entry is set up the fan entity is on the device
\* of the wrapped switch: the device id of the switch's registry entry, none
\* when the switch has no entry; setup by entity id always creates the entity.
C18_FanOnSwitchDevice ==
    pc = "fan_done"
    => LET entry == fn_in.registry[NamedSwitch(fn_in.option)]
       IN /\ fn_in.option \in Switches => fn_out.outcome = "added"
          /\ fn_out.outcome = "added"
                => /\ fn_out.wraps = NamedSwitch(fn_in.option)
                   /\ entry.registered => fn_out.device_id = entry.device_id
                   /\ ~entry.registered => fn_out.device_id = None

\* a switch on a device wrapped through its registry id, as in test_device
C18_Witness ==
    /\ pc = "fan_done"
    /\ fn_in.option = "id_unique"
    /\ fn_out.outcome = "added"
    /\ fn_out.device_id = 1
    /\ ~fn_in.registry["switch.abc"].registered

\* C19: between polls the queue holds only undelivered UIDs: with searches
\* that list UIDs in ascending order, whenever read_next has returned or
\* raised every UID left in _unread_ids is greater than _last_id and the
\* queue is ascending.
C19_QueueUndelivered ==
    pc \in {"return", "idle"}
    => /\ IsAscending(unread_ids)
       /\ \A i \in DOMAIN unread_ids :
             last_id # None /\ unread_ids[i] > last_id

\* a poll that left UIDs in the queue through the error path
C19_Witness ==
    /\ pc = "return"
    /\ errAt = "fetch"
    /\ Len(unread_ids) = 2
    /\ last_id = 1

\* C20: no discovered message is skipped: a poll never returns the message of
\* a UID V while a UID U < V, listed as new by an earlier search, has not had
\* its message returned, also when a fetch raised a protocol error and the
\* reconnect failed in between.
C20_NoSkip ==
    (Finished /\ result[1] = "msg")
    => \A U \in owed : ~(U < result[2])

\* C21: a UID fetch is issued only for a real UID: a poll that starts with no
\* last id and whose search lists nothing and that returns, returns None
\* and has sent no fetch command and started no reconnect.
C21_NoFetchWithoutUid ==
    (/\ Finished
     /\ result # Raised
     /\ startLast = None
     /\ SearchOk
     /\ searchLog[1].res = << >>)
    => /\ result = NoneMsg
       /\ fetchLog = << >>
       /\ connects = << >>

\* the UIDs a catch-up that starts now has to deliver: those above the last
\* id, or, without a last id, those the received-today search lists
ToDeliverFrom(last) ==
    IF last = None THEN fn_in.today
    ELSE { u \in fn_in.uids : u > last }

ToDeliver == ToDeliverFrom(last_id)

\* the poll that just ended returned the message of U as a new delivery
NewDelivery(U) ==
    Finished /\ result = Msg(U) /\ (startLast = None \/ startLast < U)

HighestToDeliver == CHOOSE u \in ToDeliver : \A v \in ToDeliver : v <= u

\* C22: catch-up: with a fixed folder and no protocol errors, repeated polling
\* returns every message to deliver as a new delivery, lowest UID first and
\* each once; then _last_id is the highest UID and every further poll returns
\* that message again with _last_id and the queue unchanged.
C22_CatchUp ==
    /\ \A U \in UIDs :
          (pc = "idle" /\ U \in ToDeliver) ~> NewDelivery(U)
    /\ \A U \in UIDs :
          (pc = "idle" /\ ToDeliver # {} /\ U = HighestToDeliver)
             ~> [](last_id = U)
    /\ [](\A U \in UIDs :
            NewDelivery(U)
               => /\ U \in ToDeliverFrom(startLast)
                  /\ \A V \in ToDeliverFrom(startLast) : U <= V
                  /\ last_id = U)
    /\ []((/\ Finished
           /\ startLast # None
           /\ startLast \in fn_in.uids
           /\ \A u \in fn_in.uids : u <= startLast)
          => /\ result = Msg(startLast)
             /\ last_id = startLast
             /\ unread_ids = << >>)


====
